---- MODULE Spec2Model ----
(***************************************************************************)
(* Model of 04-core-code/app-context.js (the AppContext dependency         *)
(* container) and of 04-core-code/services/workflow-service.js (the        *)
(* WorkflowService handlers), both held in src/04-core-code/app-context.js.*)
(***************************************************************************)
EXTENDS Integers, Sequences, FiniteSets, TLC

VARIABLES
    factories,   \* AppContext.factories : name -> factory or NoFactory
    instances,   \* AppContext.instances : name -> stored value or Absent
    invoked,     \* per name, how many times a factory of that name was called
    built,       \* per name, how many times a factory of that name returned a value
    ctxRet,      \* outcome of the last register/get call
    firstGot,    \* per name, the first value a get of that name returned
    quoteData,   \* stateService state: quoteData
    ui,          \* stateService state: ui
    dialog,      \* the confirmation dialog on screen and its two input fields
    activeTab,   \* the tab detailConfigView last activated
    published,   \* events the last handler call published, in order
    dispatched,  \* actions the last handler call dispatched, in order
    ret,         \* what the last handler or callback call returned
    call,        \* the last handler or callback called, and the input it drew
    fetching,    \* printable-quote requests waiting for their two templates
    logged,      \* what handlePrintableQuoteRequest last wrote to the console
    pc,          \* where the call of AppContext.initialize stands
    uiElements,  \* the uiElements argument of initialize
    priceMatrices \* ConfigManager: state of loadPriceMatrices()

initVars == <<pc, uiElements, priceMatrices>>

ctxVars == <<factories, instances, invoked, built, ctxRet, firstGot, initVars>>

printVars == <<fetching, logged>>

wfVars == <<quoteData, ui, dialog, activeTab, published, dispatched, ret, call, printVars>>

vars == <<factories, instances, invoked, built, ctxRet, firstGot,
          quoteData, ui, dialog, activeTab, published, dispatched, ret, call,
          fetching, logged, pc, uiElements, priceMatrices>>

(***************************************************************************)
(* AppContext                                                              *)
(***************************************************************************)

\* Cap on the factory runs recorded per dependency name.
MaxInvoke == 3

\* Dependency names, in registration order: a factory may resolve the names
\* before its own (as productFactory resolves configManager).
NameSeq == <<"configManager", "productFactory">>

Names == {NameSeq[i] : i \in 1..Len(NameSeq)}

NameIndex(name) == CHOOSE i \in 1..Len(NameSeq) : NameSeq[i] = name

NoFactory == [kind |-> "none", dep |-> "none"]

Absent == [tag |-> "absent", name |-> "none", serial |-> 0]

\* A falsy value (null, undefined, 0, '') returned by a factory.
Falsy == [tag |-> "falsy", name |-> "none", serial |-> 0]

\* The object a factory builds with `new`: a fresh identity at every run.
NewObject(name, serial) == [tag |-> "object", name |-> name, serial |-> serial]

\* A factory function: what it returns, and the dependency it resolves
\* through ctx.get before building ("none": it resolves nothing).
FactoriesFor(name) ==
    [kind : {"object", "falsy"},
     dep : {"none"} \cup {d \in Names : NameIndex(d) < NameIndex(name)}]

\* JavaScript truthiness of a stored value: `!this.instances[name]`.
Truthy(v) == v.tag = "object"

Context ==
    [factories |-> factories, instances |-> instances, invoked |-> invoked, built |-> built]

\* A get that returns undefined for an unknown name instead of throwing.
NotFoundSilent(name) == [threw |-> FALSE, message |-> "none", name |-> "none", value |-> Absent]

\* throw new Error(`Dependency not found: ${name}`)
NotFound(name) == [threw |-> TRUE, message |-> "Dependency not found", name |-> name, value |-> Absent]

Returned(v) == [threw |-> FALSE, message |-> "none", name |-> "none", value |-> v]

\* Where the call of initialize stands: not started ("idle"), running the
\* statement numbered `at`, awaiting loadPriceMatrices, returned ("done"),
\* or rejected.
At(status, at) == [status |-> status, at |-> at]

\* The names registered or stored by initialize, in the order of the source.
AppNameSeq ==
    <<"eventAggregator", "configManager",
      "migrationService", "stateService", "productFactory", "calculationService",
      "fileService", "focusService", "k1LocationView", "k2FabricView", "k3OptionsView",
      "dualChainView", "driveAccessoriesView", "detailConfigView", "workflowService",
      "appController",
      "leftPanelComponent", "rightPanelComponent", "quotePreviewComponent",
      "f1CostView", "f2SummaryView", "f3QuotePrepView", "f4ActionsView",
      "tableComponent", "summaryComponent", "notificationComponent", "dialogComponent",
      "leftPanelInputHandler", "uiManager">>

AppNames == {AppNameSeq[i] : i \in 1..Len(AppNameSeq)}

\* The names the factory that initialize registers for `name` resolves
\* through ctx.get, in the order of its arguments.
Dependencies(name) ==
    CASE name \in {"stateService"} -> <<"migrationService">>
      [] name \in {"productFactory"} -> <<"configManager">>
      [] name \in {"calculationService"} -> <<"productFactory", "stateService">>
      [] name \in {"focusService", "dialogComponent"} -> <<"eventAggregator">>
      [] name \in {"k1LocationView", "k3OptionsView", "f1CostView", "f2SummaryView",
                   "f3QuotePrepView", "f4ActionsView"} ->
           <<"eventAggregator", "stateService">>
      [] name \in {"k2FabricView"} -> <<"eventAggregator", "stateService", "configManager">>
      [] name \in {"dualChainView", "driveAccessoriesView"} ->
           <<"eventAggregator", "stateService", "calculationService">>
      [] name \in {"detailConfigView"} ->
           <<"eventAggregator", "stateService", "k1LocationView", "k2FabricView",
             "k3OptionsView", "dualChainView", "driveAccessoriesView">>
      [] name \in {"workflowService"} ->
           <<"eventAggregator", "stateService", "fileService", "calculationService",
             "productFactory", "detailConfigView", "configManager">>
      [] name \in {"tableComponent"} ->
           <<"eventAggregator", "stateService", "configManager", "productFactory">>
      [] name \in {"summaryComponent"} -> <<"stateService">>
      [] name \in {"leftPanelInputHandler"} ->
           <<"eventAggregator", "stateService", "detailConfigView">>
      [] name \in {"uiManager"} ->
           <<"eventAggregator", "stateService", "tableComponent", "summaryComponent",
             "leftPanelComponent", "rightPanelComponent", "notificationComponent",
             "dialogComponent", "quotePreviewComponent">>
      [] OTHER -> <<>>

\* A factory that initialize registers: it builds an object with `new`
\* after resolving the names listed for it.
AppFactory == [kind |-> "object", dep |-> "listed"]

RECURSIVE Resolve(_, _), ResolveAll(_, _)
\* ctx.get of each of `names` in turn, stopping at the first that throws.
ResolveAll(c, names) ==
    IF names = <<>> THEN [ctx |-> c, out |-> Returned(Absent)]
    ELSE LET r == Resolve(c, Head(names))
         IN IF r.out.threw THEN r ELSE ResolveAll(r.ctx, Tail(names))

\* AppContext.get(name) on context c: the context after the call and its outcome.
Resolve(c, name) ==
    IF Truthy(c.instances[name])
    THEN [ctx |-> c, out |-> Returned(c.instances[name])]
    ELSE LET factory == c.factories[name] IN
         IF factory = NoFactory
         THEN [ctx |-> c, out |-> NotFound(name)]
         ELSE \* factory(this): the factory runs, resolving its dependency first
              LET c1 == [c EXCEPT !.invoked[name] = @ + 1]
                  d  == IF factory.dep = "none"
                        THEN [ctx |-> c1, out |-> Returned(Absent)]
                        ELSE IF factory.dep = "listed"
                        THEN ResolveAll(c1, Dependencies(name))
                        ELSE Resolve(c1, factory.dep)
                  v  == IF factory.kind = "object"
                        THEN NewObject(name, c1.invoked[name])
                        ELSE Falsy
              IN IF d.out.threw
                 THEN [ctx |-> d.ctx, out |-> d.out]
                 ELSE [ctx |-> [d.ctx EXCEPT !.instances[name] = v, !.built[name] = @ + 1],
                       out |-> Returned(v)]

\* A register that builds the dependency at once instead of storing the factory.
registerEager(name, factory) ==
    /\ invoked[name] < MaxInvoke
    /\ factories' = [factories EXCEPT ![name] = factory]
    /\ invoked' = [invoked EXCEPT ![name] = @ + 1]
    /\ built' = [built EXCEPT ![name] = @ + 1]
    /\ instances' = [instances EXCEPT ![name] = NewObject(name, invoked[name] + 1)]
    /\ ctxRet' = [op |-> "register", name |-> name, out |-> Returned(Absent)]
    /\ UNCHANGED <<firstGot, initVars, wfVars>>

\* register(name, factory)
register(name, factory) ==
    /\ factories' = [factories EXCEPT ![name] = factory]
    /\ ctxRet' = [op |-> "register", name |-> name, out |-> Returned(Absent)]
    /\ UNCHANGED <<instances, invoked, built, firstGot, initVars, wfVars>>

\* get(name)
get(name) ==
    LET r == Resolve(Context, name) IN
    /\ \A n \in Names : r.ctx.invoked[n] <= MaxInvoke
    /\ factories' = r.ctx.factories
    /\ instances' = r.ctx.instances
    /\ invoked' = r.ctx.invoked
    /\ built' = r.ctx.built
    /\ ctxRet' = [op |-> "get", name |-> name, out |-> r.out]
    /\ firstGot' = IF ~r.out.threw /\ firstGot[name] = Absent
                   THEN [firstGot EXCEPT ![name] = r.out.value]
                   ELSE firstGot
    /\ UNCHANGED <<initVars, wfVars>>

CtxNext ==
    \/ \E name \in Names : \E factory \in FactoriesFor(name) : register(name, factory)
    \/ \E name \in Names : get(name)

(***************************************************************************)
(* Values of the quote state                                               *)
(***************************************************************************)

\* Largest ui.driveRemoteCount drawn.
MaxRemotes == 2

\* Longest item list of a quote drawn for the distribution dialogs.
MaxDualItems == 4

\* Longest item list of a quote drawn for loading.
MaxItems == 2

\* A nullable number is <<>> (null) or <<n>>.
Null == <<>>

Num(n) == <<n>>

\* Number(v) of a nullable number in arithmetic: null counts as 0.
NumOr0(v) == IF v = Null THEN 0 ELSE v[1]

\* JavaScript truthiness of a nullable number: null and 0 are falsy.
TruthyNum(v) == v # Null /\ v[1] # 0

ProductKey == "rollerBlind"

Item(width, height, dual) == [width |-> width, height |-> height, dual |-> dual]

\* Items a quote may hold: blank, zero-sized, partly and fully sized, dual.
ItemKinds ==
    {Item(Null, Null, ""), Item(Num(0), Null, ""), Item(Num(600), Null, ""),
     Item(Null, Num(900), "D"), Item(Num(600), Num(900), "D")}

ItemLists(maxLen) == UNION {[1..n -> ItemKinds] : n \in 0..maxLen}

\* quoteData with an entry for the current product holding `items`.
QuoteWith(items) ==
    [currentProduct |-> ProductKey,
     products |-> [k \in {ProductKey} |-> [items |-> items]]]

\* quoteData whose products map has no entry for the current product.
QuoteWithoutProduct ==
    [currentProduct |-> ProductKey, products |-> [k \in {} |-> [items |-> <<>>]]]

\* Quotes a file may hold.
LoadableQuotes == {QuoteWith(items) : items \in ItemLists(MaxItems)} \cup {QuoteWithoutProduct}

\* n dual ('D') items, after a plain item when `mixed`.
DualItems(n, mixed) ==
    (IF mixed THEN <<Item(Num(600), Num(900), "")>> ELSE <<>>)
      \o [i \in 1..n |-> Item(Num(600), Num(900), "D")]

\* Quotes drawn for the distribution dialogs.
DualQuotes ==
    {QuoteWith(DualItems(n, mixed)) : n \in 0..MaxDualItems, mixed \in BOOLEAN}
      \cup {QuoteWithoutProduct}

InitialColumns == <<"sequence", "width", "height", "TYPE", "Price">>

OtherColumns == <<"sequence", "fabricTypeDisplay", "location">>

\* initialState.ui
InitialUi ==
    [currentView |-> "QUICK_QUOTE",
     visibleColumns |-> InitialColumns,
     isSumOutdated |-> FALSE,
     driveRemoteCount |-> Num(0),
     f1 |-> [remote_1ch_qty |-> Num(0), remote_16ch_qty |-> Null,
             dual_combo_qty |-> Null, dual_slim_qty |-> Null]]

InitialQuote == QuoteWith(<<Item(Null, Null, "")>>)

(***************************************************************************)
(* Text of an input field and its conversions                              *)
(***************************************************************************)

Digits == <<"0", "1", "2", "3", "4", "5", "6", "7", "8", "9">>

IsDigit(c) == \E i \in 1..Len(Digits) : Digits[i] = c

DigitVal(c) == (CHOOSE i \in 1..Len(Digits) : Digits[i] = c) - 1

\* The result of parseInt: <<>> is NaN, <<n>> the integer n.
NaN == <<>>

RECURSIVE SkipSpaces(_)
SkipSpaces(t) == IF t # <<>> /\ Head(t) = " " THEN SkipSpaces(Tail(t)) ELSE t

RECURSIVE DigitRun(_)
\* The longest prefix of t made of decimal digits.
DigitRun(t) ==
    IF t # <<>> /\ IsDigit(Head(t)) THEN <<Head(t)>> \o DigitRun(Tail(t)) ELSE <<>>

RECURSIVE DigitsValue(_)
DigitsValue(d) ==
    IF d = <<>> THEN 0
    ELSE 10 * DigitsValue(SubSeq(d, 1, Len(d) - 1)) + DigitVal(d[Len(d)])

\* parseInt(t, 10): leading blanks, an optional sign, then the digits up to
\* the first character that is none; NaN when there is no digit.
ParseInt(t) ==
    LET s    == SkipSpaces(t)
        sign == s # <<>> /\ Head(s) \in {"-", "+"}
        run  == DigitRun(IF sign THEN Tail(s) ELSE s)
    IN IF run = <<>> THEN NaN
       ELSE IF sign /\ Head(s) = "-" THEN <<0 - DigitsValue(run)>>
       ELSE <<DigitsValue(run)>>

RECURSIVE ToText(_)
\* String(n), as assigning a number to input.value writes it.
ToText(n) ==
    IF n < 0 THEN <<"-">> \o ToText(0 - n)
    ELSE IF n < 10 THEN <<Digits[n + 1]>>
    ELSE ToText(n \div 10) \o <<Digits[(n % 10) + 1]>>

\* The text an input shows for the value the dialog layout gives it.
FieldText(v) == IF v = Null THEN <<>> ELSE ToText(v[1])

\* Texts a user enters in a quantity field.
InputTexts ==
    {<<>>, <<"0">>, <<"1">>, <<"2">>, <<"-", "1">>, <<"1", ".", "5">>,
     <<" ", "1">>, <<"x">>, <<"2", "x">>, <<"1", "0">>}

(***************************************************************************)
(* stateService, eventAggregator                                           *)
(***************************************************************************)

Event(name) == [name |-> name, type |-> "none", message |-> "none", total |-> 0, current |-> 0]

\* publish(SHOW_NOTIFICATION, { message }) and { message, type: 'error' }
Notification(message, type) ==
    [name |-> "SHOW_NOTIFICATION", type |-> type, message |-> message, total |-> 0, current |-> 0]

\* `Total must equal ${total}. Current total: ${current}.`
TotalMismatch(total, current) ==
    [name |-> "SHOW_NOTIFICATION", type |-> "error", message |-> "Total must equal",
     total |-> total, current |-> current]

QuantitiesError == Notification("Quantities must be positive numbers.", "error")

\* The reducers of stateService: the state after dispatch(action).
Reduce(state, action) ==
    CASE action.type = "setF1RemoteDistribution" ->
           [state EXCEPT !.ui.f1.remote_1ch_qty = Num(action.qty1),
                         !.ui.f1.remote_16ch_qty = Num(action.qty2)]
      [] action.type = "setF1DualDistribution" ->
           [state EXCEPT !.ui.f1.dual_combo_qty = Num(action.qty1),
                         !.ui.f1.dual_slim_qty = Num(action.qty2)]
      [] action.type = "setCurrentView" ->
           [state EXCEPT !.ui.currentView = action.view]
      [] action.type = "setVisibleColumns" ->
           [state EXCEPT !.ui.visibleColumns = action.columns]
      [] action.type = "setQuoteData" ->
           [state EXCEPT !.quoteData = action.data]
      [] action.type = "resetUi" ->
           [state EXCEPT !.ui = InitialUi]
      [] action.type = "setSumOutdated" ->
           [state EXCEPT !.ui.isSumOutdated = action.flag]

RECURSIVE DispatchAll(_, _)
\* The state after dispatching the actions of a sequence in order.
DispatchAll(state, actions) ==
    IF actions = <<>> THEN state
    ELSE DispatchAll(Reduce(state, Head(actions)), Tail(actions))

State == [quoteData |-> quoteData, ui |-> ui]

\* The actions of ui-actions.js and quote-actions.js.
setF1RemoteDistribution(qty1ch, qty16ch) ==
    [type |-> "setF1RemoteDistribution", qty1 |-> qty1ch, qty2 |-> qty16ch]

setF1DualDistribution(qtyCombo, qtySlim) ==
    [type |-> "setF1DualDistribution", qty1 |-> qtyCombo, qty2 |-> qtySlim]

setCurrentView(view) == [type |-> "setCurrentView", view |-> view]

setVisibleColumns(columns) == [type |-> "setVisibleColumns", columns |-> columns]

setQuoteData(data) == [type |-> "setQuoteData", data |-> data]

resetUi == [type |-> "resetUi"]

setSumOutdated(flag) == [type |-> "setSumOutdated", flag |-> flag]

NoCall == [handler |-> "none", input |-> "none"]

\* Nothing written to the console yet.
NoLog == [line |-> "none", data |-> <<>>]

NoDialog == [kind |-> "none", total |-> 0, first |-> <<>>, second |-> <<>>]

\* One call of `handler` on `input`: its events, its actions applied to the
\* state in order, its result.
Effect(handler, input, events, actions, result) ==
    /\ call' = [handler |-> handler, input |-> input]
    /\ published' = events
    /\ dispatched' = actions
    /\ ret' = result
    /\ quoteData' = DispatchAll(State, actions).quoteData
    /\ ui' = DispatchAll(State, actions).ui
    /\ UNCHANGED printVars

(***************************************************************************)
(* WorkflowService: the two distribution dialogs                           *)
(***************************************************************************)

Outcome(events, actions, result) == [events |-> events, actions |-> actions, result |-> result]

\* const totalRemoteCount = ui.driveRemoteCount || 0
TotalRemoteCount(u) == IF TruthyNum(u.driveRemoteCount) THEN u.driveRemoteCount[1] ELSE 0

\* A pair count that takes every dual item for a pair.
TotalDualItems(items) == Cardinality({i \in 1..Len(items) : items[i].dual = "D"})

\* Math.floor(items.filter(item => item.dual === 'D').length / 2)
TotalDualPairs(items) == Cardinality({i \in 1..Len(items) : items[i].dual = "D"}) \div 2

\* The dialog closes after a button's callback unless the callback returns false.
AfterCallback(result) == IF result = "false" THEN dialog ELSE NoDialog

\* handleRemoteDistribution(): opens the dialog with its initial field values.
handleRemoteDistribution ==
    /\ dialog.kind = "none"
    /\ LET totalRemoteCount == TotalRemoteCount(ui)
           initial1ch  == ui.f1.remote_1ch_qty
           initial16ch == IF ui.f1.remote_16ch_qty = Null
                          THEN Num(totalRemoteCount - NumOr0(initial1ch))
                          ELSE ui.f1.remote_16ch_qty
       IN dialog' = [kind |-> "remote", total |-> totalRemoteCount,
                     first |-> FieldText(initial1ch), second |-> FieldText(initial16ch)]
    /\ Effect("handleRemoteDistribution", "none", <<Event("SHOW_CONFIRMATION_DIALOG")>>, <<>>, "undefined")
    /\ UNCHANGED <<activeTab, ctxVars>>

\* Listeners that fill the other field for any quantity from 0 up, above
\* the total included.
RemoteAutoFillUnbounded(totalRemoteCount, text, other) ==
    LET qty == ParseInt(text)
    IN IF qty # NaN /\ qty[1] >= 0
       THEN ToText(totalRemoteCount - qty[1])
       ELSE other

\* The 'input' listeners of the remote dialog: the text the other field holds
\* after `text` was entered in one field.
RemoteAutoFill(totalRemoteCount, text, other) ==
    LET qty == ParseInt(text)
    IN IF qty # NaN /\ qty[1] >= 0 /\ qty[1] <= totalRemoteCount
       THEN ToText(totalRemoteCount - qty[1])
       ELSE other

\* An input event on the 1-Ch field.
input1ch(text) ==
    /\ dialog.kind = "remote"
    /\ dialog' = [dialog EXCEPT !.first = text,
                                !.second = RemoteAutoFill(dialog.total, text, @)]
    /\ Effect("input1ch", text, <<>>, <<>>, "undefined")
    /\ UNCHANGED <<activeTab, ctxVars>>

\* An input event on the 16-Ch field.
input16ch(text) ==
    /\ dialog.kind = "remote"
    /\ dialog' = [dialog EXCEPT !.second = text,
                                !.first = RemoteAutoFill(dialog.total, text, @)]
    /\ Effect("input16ch", text, <<>>, <<>>, "undefined")
    /\ UNCHANGED <<activeTab, ctxVars>>

\* A Confirm callback that does not compare the sum with the total.
ConfirmRemoteNoSum(totalRemoteCount, text1ch, text16ch) ==
    LET qty1ch  == ParseInt(text1ch)
        qty16ch == ParseInt(text16ch)
    IN IF qty1ch = NaN \/ qty16ch = NaN \/ qty1ch[1] < 0 \/ qty16ch[1] < 0
       THEN Outcome(<<QuantitiesError>>, <<>>, "false")
       ELSE Outcome(<<>>, <<setF1RemoteDistribution(qty1ch[1], qty16ch[1])>>, "true")

\* The Confirm callback of the remote dialog on the two field texts.
ConfirmRemote(totalRemoteCount, text1ch, text16ch) ==
    LET qty1ch  == ParseInt(text1ch)
        qty16ch == ParseInt(text16ch)
    IN IF qty1ch = NaN \/ qty16ch = NaN \/ qty1ch[1] < 0 \/ qty16ch[1] < 0
       THEN Outcome(<<QuantitiesError>>, <<>>, "false")
       ELSE IF qty1ch[1] + qty16ch[1] # totalRemoteCount
       THEN Outcome(<<TotalMismatch(totalRemoteCount, qty1ch[1] + qty16ch[1])>>, <<>>, "false")
       ELSE Outcome(<<>>, <<setF1RemoteDistribution(qty1ch[1], qty16ch[1])>>, "true")

\* A click on Confirm in the remote dialog.
confirmRemote ==
    /\ dialog.kind = "remote"
    /\ LET o == ConfirmRemote(dialog.total, dialog.first, dialog.second)
       IN /\ Effect("confirmRemote", "none", o.events, o.actions, o.result)
          /\ dialog' = AfterCallback(o.result)
    /\ UNCHANGED <<activeTab, ctxVars>>

\* A click on Cancel in the remote dialog: callback: () => { }
cancelRemote ==
    /\ dialog.kind = "remote"
    /\ Effect("cancelRemote", "none", <<>>, <<>>, "undefined")
    /\ dialog' = AfterCallback("undefined")
    /\ UNCHANGED <<activeTab, ctxVars>>

\* handleDualDistribution(): throws a TypeError when the products map has no
\* entry for the current product, else opens the dialog.
handleDualDistribution ==
    /\ dialog.kind = "none"
    /\ IF quoteData.currentProduct \notin DOMAIN quoteData.products
       THEN /\ Effect("handleDualDistribution", "none", <<>>, <<>>, "throw")
            /\ dialog' = dialog
       ELSE LET items == quoteData.products[quoteData.currentProduct].items
                totalDualPairs == TotalDualPairs(items)
                initialCombo == IF ui.f1.dual_combo_qty = Null
                                THEN Num(totalDualPairs) ELSE ui.f1.dual_combo_qty
                initialSlim  == IF ui.f1.dual_slim_qty = Null
                                THEN Num(0) ELSE ui.f1.dual_slim_qty
            IN /\ dialog' = [kind |-> "dual", total |-> totalDualPairs,
                             first |-> FieldText(initialCombo),
                             second |-> FieldText(initialSlim)]
               /\ Effect("handleDualDistribution", "none", <<Event("SHOW_CONFIRMATION_DIALOG")>>, <<>>, "undefined")
    /\ UNCHANGED <<activeTab, ctxVars>>

\* The 'input' listeners of the dual dialog.
DualAutoFill(totalDualPairs, text, other) ==
    LET qty == ParseInt(text)
    IN IF qty # NaN /\ qty[1] >= 0 /\ qty[1] <= totalDualPairs
       THEN ToText(totalDualPairs - qty[1])
       ELSE other

\* An input event on the Combo field.
inputCombo(text) ==
    /\ dialog.kind = "dual"
    /\ dialog' = [dialog EXCEPT !.first = text,
                                !.second = DualAutoFill(dialog.total, text, @)]
    /\ Effect("inputCombo", text, <<>>, <<>>, "undefined")
    /\ UNCHANGED <<activeTab, ctxVars>>

\* An input event on the Slim field.
inputSlim(text) ==
    /\ dialog.kind = "dual"
    /\ dialog' = [dialog EXCEPT !.second = text,
                                !.first = DualAutoFill(dialog.total, text, @)]
    /\ Effect("inputSlim", text, <<>>, <<>>, "undefined")
    /\ UNCHANGED <<activeTab, ctxVars>>

\* A Confirm callback that rejects a zero quantity (<= 0 for < 0).
ConfirmDualPositive(totalDualPairs, textCombo, textSlim) ==
    LET qtyCombo == ParseInt(textCombo)
        qtySlim  == ParseInt(textSlim)
    IN IF qtyCombo = NaN \/ qtySlim = NaN \/ qtyCombo[1] <= 0 \/ qtySlim[1] <= 0
       THEN Outcome(<<QuantitiesError>>, <<>>, "false")
       ELSE IF qtyCombo[1] + qtySlim[1] # totalDualPairs
       THEN Outcome(<<TotalMismatch(totalDualPairs, qtyCombo[1] + qtySlim[1])>>, <<>>, "false")
       ELSE Outcome(<<>>, <<setF1DualDistribution(qtyCombo[1], qtySlim[1])>>, "true")

\* A Confirm callback that turns a wrong sum down without a notification.
ConfirmDualSilent(totalDualPairs, textCombo, textSlim) ==
    LET qtyCombo == ParseInt(textCombo)
        qtySlim  == ParseInt(textSlim)
    IN IF qtyCombo = NaN \/ qtySlim = NaN \/ qtyCombo[1] < 0 \/ qtySlim[1] < 0
       THEN Outcome(<<QuantitiesError>>, <<>>, "false")
       ELSE IF qtyCombo[1] + qtySlim[1] # totalDualPairs
       THEN Outcome(<<>>, <<>>, "false")
       ELSE Outcome(<<>>, <<setF1DualDistribution(qtyCombo[1], qtySlim[1])>>, "true")

\* The Confirm callback of the dual dialog on the two field texts.
ConfirmDual(totalDualPairs, textCombo, textSlim) ==
    LET qtyCombo == ParseInt(textCombo)
        qtySlim  == ParseInt(textSlim)
    IN IF qtyCombo = NaN \/ qtySlim = NaN \/ qtyCombo[1] < 0 \/ qtySlim[1] < 0
       THEN Outcome(<<QuantitiesError>>, <<>>, "false")
       ELSE IF qtyCombo[1] + qtySlim[1] # totalDualPairs
       THEN Outcome(<<TotalMismatch(totalDualPairs, qtyCombo[1] + qtySlim[1])>>, <<>>, "false")
       ELSE Outcome(<<>>, <<setF1DualDistribution(qtyCombo[1], qtySlim[1])>>, "true")

\* A click on Confirm in the dual dialog.
confirmDual ==
    /\ dialog.kind = "dual"
    /\ LET o == ConfirmDual(dialog.total, dialog.first, dialog.second)
       IN /\ Effect("confirmDual", "none", o.events, o.actions, o.result)
          /\ dialog' = AfterCallback(o.result)
    /\ UNCHANGED <<activeTab, ctxVars>>

\* A click on Cancel in the dual dialog: callback: () => { }
cancelDual ==
    /\ dialog.kind = "dual"
    /\ Effect("cancelDual", "none", <<>>, <<>>, "undefined")
    /\ dialog' = AfterCallback("undefined")
    /\ UNCHANGED <<activeTab, ctxVars>>

\* The application with a quote and a remote count in place, before a dialog.
DistInit ==
    /\ factories = [n \in Names |-> NoFactory]
    /\ instances = [n \in Names |-> Absent]
    /\ invoked = [n \in Names |-> 0]
    /\ built = [n \in Names |-> 0]
    /\ ctxRet = [op |-> "new", name |-> "none", out |-> Returned(Absent)]
    /\ firstGot = [n \in Names |-> Absent]
    /\ quoteData \in DualQuotes
    /\ \E count \in {Null} \cup {Num(n) : n \in 0..MaxRemotes} :
       \E initial1ch \in {Null, Num(0)} :
          ui = [InitialUi EXCEPT !.driveRemoteCount = count,
                                 !.f1.remote_1ch_qty = initial1ch]
    /\ dialog = NoDialog
    /\ activeTab = "none"
    /\ published = <<>>
    /\ dispatched = <<>>
    /\ ret = "none"
    /\ call = NoCall
    /\ fetching = 0
    /\ logged = NoLog
    /\ pc = At("idle", 0)
    /\ uiElements = {}
    /\ priceMatrices = "unloaded"

DistNext ==
    \/ handleRemoteDistribution
    \/ \E text \in InputTexts : input1ch(text)
    \/ \E text \in InputTexts : input16ch(text)
    \/ confirmRemote
    \/ cancelRemote
    \/ handleDualDistribution
    \/ \E text \in InputTexts : inputCombo(text)
    \/ \E text \in InputTexts : inputSlim(text)
    \/ confirmDual
    \/ cancelDual

(***************************************************************************)
(* WorkflowService: navigation and file loading                            *)
(***************************************************************************)

TabIds == {"k1-tab", "k2-tab"}

\* What fileService.parseFileContent(fileName, content) may return.
ParseResults ==
    [success : {TRUE}, data : LoadableQuotes, message : {"File loaded."}]
      \cup [success : {FALSE}, data : {QuoteWithoutProduct},
            message : {"Unsupported file type.", "File content is invalid."}]

\* detailConfigView.activateTab(tabId)
activateTab(tabId) == activeTab' = tabId

\* A toggle that leaves the detail view without resetting the columns.
NavigationToDetailViewKeepsColumns(u) ==
    IF u.currentView = "QUICK_QUOTE"
    THEN [actions |-> <<setCurrentView("DETAIL_CONFIG")>>, tab |-> "k1-tab"]
    ELSE [actions |-> <<setCurrentView("QUICK_QUOTE")>>, tab |-> "none"]

\* handleNavigationToDetailView() on ui: the actions it dispatches and the
\* tab it activates ("none": no tab).
NavigationToDetailView(u) ==
    IF u.currentView = "QUICK_QUOTE"
    THEN [actions |-> <<setCurrentView("DETAIL_CONFIG")>>, tab |-> "k1-tab"]
    ELSE [actions |-> <<setCurrentView("QUICK_QUOTE"), setVisibleColumns(InitialUi.visibleColumns)>>,
          tab |-> "none"]

handleNavigationToDetailView ==
    LET nav == NavigationToDetailView(ui)
    IN /\ Effect("handleNavigationToDetailView", "none", <<>>, nav.actions, "undefined")
       /\ IF nav.tab = "none" THEN UNCHANGED activeTab ELSE activateTab(nav.tab)
       /\ UNCHANGED <<dialog, ctxVars>>

\* The actions handleNavigationToQuickQuoteView() dispatches.
NavigationToQuickQuoteView ==
    <<setCurrentView("QUICK_QUOTE"), setVisibleColumns(InitialUi.visibleColumns)>>

handleNavigationToQuickQuoteView ==
    /\ Effect("handleNavigationToQuickQuoteView", "none", <<>>, NavigationToQuickQuoteView, "undefined")
    /\ UNCHANGED <<activeTab, dialog, ctxVars>>

\* handleTabSwitch({ tabId })
handleTabSwitch(tabId) ==
    /\ Effect("handleTabSwitch", tabId, <<>>, <<>>, "undefined")
    /\ activateTab(tabId)
    /\ UNCHANGED <<dialog, ctxVars>>

\* Another component dispatching setVisibleColumns (a view showing its columns).
viewSetsVisibleColumns ==
    /\ Effect("viewSetsVisibleColumns", "none", <<>>, <<setVisibleColumns(OtherColumns)>>, "undefined")
    /\ UNCHANGED <<activeTab, dialog, ctxVars>>

\* A hasData that takes any single item for data.
HasDataAnyItem(q) ==
    LET items == IF q.currentProduct \in DOMAIN q.products
                 THEN q.products[q.currentProduct].items ELSE <<>>
    IN Len(items) >= 1

\* hasData of handleUserRequestedLoad: more than one item, or one item with
\* a truthy width or height.
HasData(q) ==
    LET items == IF q.currentProduct \in DOMAIN q.products
                 THEN q.products[q.currentProduct].items ELSE <<>>
    IN \/ Len(items) > 1
       \/ Len(items) = 1 /\ (TruthyNum(items[1].width) \/ TruthyNum(items[1].height))

handleUserRequestedLoad ==
    /\ IF HasData(quoteData)
       THEN Effect("handleUserRequestedLoad", "none",
                   <<Event("SHOW_LOAD_CONFIRMATION_DIALOG")>>, <<>>, "undefined")
       ELSE Effect("handleUserRequestedLoad", "none",
                   <<Event("TRIGGER_FILE_LOAD")>>, <<>>, "undefined")
    /\ UNCHANGED <<activeTab, dialog, ctxVars>>

handleLoadDirectly ==
    /\ Effect("handleLoadDirectly", "none", <<Event("TRIGGER_FILE_LOAD")>>, <<>>, "undefined")
    /\ UNCHANGED <<activeTab, dialog, ctxVars>>

\* A file load that sets the sum-outdated flag before it resets the UI.
FileLoadFlagFirst(result) ==
    IF result.success
    THEN Outcome(<<Notification(result.message, "none")>>,
                 <<setQuoteData(result.data), setSumOutdated(TRUE), resetUi>>, "undefined")
    ELSE Outcome(<<Notification(result.message, "error")>>, <<>>, "undefined")

\* A file load that resets the UI before it looks at the result.
FileLoadResetsAlways(result) ==
    IF result.success
    THEN Outcome(<<Notification(result.message, "none")>>,
                 <<setQuoteData(result.data), resetUi, setSumOutdated(TRUE)>>, "undefined")
    ELSE Outcome(<<Notification(result.message, "error")>>, <<resetUi>>, "undefined")

\* handleFileLoad({ fileName, content }) once parseFileContent returned `result`.
FileLoad(result) ==
    IF result.success
    THEN Outcome(<<Notification(result.message, "none")>>,
                 <<setQuoteData(result.data), resetUi, setSumOutdated(TRUE)>>, "undefined")
    ELSE Outcome(<<Notification(result.message, "error")>>, <<>>, "undefined")

handleFileLoad(result) ==
    /\ LET o == FileLoad(result)
       IN Effect("handleFileLoad", result, o.events, o.actions, o.result)
    /\ UNCHANGED <<activeTab, dialog, ctxVars>>

\* The application after start, with the quote it opens on.
WorkflowInit ==
    /\ factories = [n \in Names |-> NoFactory]
    /\ instances = [n \in Names |-> Absent]
    /\ invoked = [n \in Names |-> 0]
    /\ built = [n \in Names |-> 0]
    /\ ctxRet = [op |-> "new", name |-> "none", out |-> Returned(Absent)]
    /\ firstGot = [n \in Names |-> Absent]
    /\ quoteData = InitialQuote
    /\ ui = InitialUi
    /\ dialog = NoDialog
    /\ activeTab = "none"
    /\ published = <<>>
    /\ dispatched = <<>>
    /\ ret = "none"
    /\ call = NoCall
    /\ fetching = 0
    /\ logged = NoLog
    /\ pc = At("idle", 0)
    /\ uiElements = {}
    /\ priceMatrices = "unloaded"

WorkflowNext ==
    \/ handleNavigationToDetailView
    \/ handleNavigationToQuickQuoteView
    \/ \E tabId \in TabIds : handleTabSwitch(tabId)
    \/ viewSetsVisibleColumns
    \/ handleUserRequestedLoad
    \/ handleLoadDirectly
    \/ \E result \in ParseResults : handleFileLoad(result)

(***************************************************************************)
(* WorkflowService: the printable quote, first version                     *)
(***************************************************************************)

\* Cap on the printable-quote requests waiting for their templates at once.
MaxFetching == 2

\* A string is the sequence of its pieces; '' is the empty sequence.
Newline == "\n"

\* str.replace(/\n/g, '<br>')
BreakLines(str) == [i \in 1..Len(str) |-> IF str[i] = Newline THEN "<br>" ELSE str[i]]

\* str || fallback
Or(str, fallback) == IF str # <<>> THEN str ELSE fallback

\* The values of the F3 panel's input elements.
F3Form(quoteId, issueDate, dueDate, name, address, phone, email, terms) ==
    [quoteId |-> quoteId, issueDate |-> issueDate, dueDate |-> dueDate,
     customerName |-> name, customerAddress |-> address, customerPhone |-> phone,
     customerEmail |-> email, finalOfferPrice |-> <<>>, generalNotes |-> <<>>,
     termsConditions |-> terms]

\* An empty panel, a fully filled one, and one with an ill-formed date.
F3Forms ==
    {F3Form(<<>>, <<>>, <<>>, <<>>, <<>>, <<>>, <<>>, <<>>),
     F3Form(<<"Q-7">>, <<"2025", "-", "01", "-", "31">>, <<"2025", "-", "02", "-", "14">>,
            <<"Ann">>, <<"1 High St", Newline, "Perth">>, <<"0400">>, <<"ann@x.au">>,
            <<"Pay on time.", Newline, "No refunds.">>),
     F3Form(<<"Q-8">>, <<"soon">>, <<>>, <<"Bo">>, <<>>, <<>>, <<"bo@x.au">>, <<>>)}

\* _getF3OverrideData(): getValue(id) = document.getElementById(id)?.value || ''
getF3OverrideData(form) == form

\* _formatCustomerInfo(f3Data), with the two placeholder texts of the version.
formatCustomerInfo(f3Data, noName, noAddress) ==
    <<"<strong>">> \o Or(f3Data.customerName, <<noName>>) \o <<"</strong><br>">>
    \o (IF f3Data.customerAddress # <<>>
        THEN BreakLines(f3Data.customerAddress) \o <<"<br>">>
        ELSE <<noAddress, "<br>">>)
    \o (IF f3Data.customerPhone # <<>>
        THEN <<"Phone: ">> \o f3Data.customerPhone \o <<"<br>">> ELSE <<>>)
    \o (IF f3Data.customerEmail # <<>>
        THEN <<"Email: ">> \o f3Data.customerEmail ELSE <<>>)

\* The keys _prepareTemplateData fills with static placeholder data.
StaticAmountKeys ==
    {"subtotal", "deliveryFee", "installationFee", "gst", "grandTotal",
     "deposit", "balance", "savings"}

\* _prepareTemplateData(f3Data)
prepareTemplateData(f3Data) ==
    [key \in StaticAmountKeys |-> <<"$0.00">>]
    @@ [quoteId |-> Or(f3Data.quoteId, <<"[Quote ID]">>),
        issueDate |-> Or(f3Data.issueDate, <<"[Issue Date]">>),
        dueDate |-> Or(f3Data.dueDate, <<"[Due Date]">>),
        customerInfoHtml |-> formatCustomerInfo(f3Data, "[Customer Name]", "[Customer Address]"),
        termsAndConditions |->
            BreakLines(Or(f3Data.termsConditions, <<"Standard terms and conditions apply.">>)),
        itemsTableBody |-> <<"<tr>Roller Blinds Package - Summary</tr>">>,
        rollerBlindsTable |-> <<"<table>[Location]</table>">>]

\* The matches of /\{\{\{?([\w\-]+)\}\}\}?/g in the templates, with their key.
KeyOf ==
    [match \in {"{{quoteId}}", "{{{customerInfoHtml}}}", "{{grandTotal}}",
                "{{{rollerBlindsTable}}}", "{{{termsAndConditions}}}",
                "{{appendixQuoteId}}", "{{no-such-key}}"} |->
       CASE match = "{{quoteId}}" -> "quoteId"
         [] match = "{{{customerInfoHtml}}}" -> "customerInfoHtml"
         [] match = "{{grandTotal}}" -> "grandTotal"
         [] match = "{{{rollerBlindsTable}}}" -> "rollerBlindsTable"
         [] match = "{{{termsAndConditions}}}" -> "termsAndConditions"
         [] match = "{{appendixQuoteId}}" -> "appendixQuoteId"
         [] match = "{{no-such-key}}" -> "no-such-key"]

RECURSIVE populateTemplate(_, _)
\* _populateTemplate(template, data): a match is replaced by data[key] when
\* data has the key, and kept otherwise.
populateTemplate(template, data) ==
    IF template = <<>> THEN <<>>
    ELSE LET match == Head(template)
             replacement == IF match \in DOMAIN KeyOf /\ KeyOf[match] \in DOMAIN data
                            THEN data[KeyOf[match]] ELSE <<match>>
         IN replacement \o populateTemplate(Tail(template), data)

\* The file at paths.partials.quoteTemplate.
QuoteTemplates ==
    {<<"<h1>Quote ", "{{quoteId}}", "</h1>", "{{{customerInfoHtml}}}", "{{grandTotal}}",
       "{{no-such-key}}", "{{{termsAndConditions}}}">>,
     <<"<h1>Quote</h1>">>}

\* The file at paths.partials.detailedItemList.
DetailsTemplates ==
    {<<"<h2>", "{{appendixQuoteId}}", "</h2>", "{{{rollerBlindsTable}}}">>, <<>>}

\* How a fetch ends: a response with res.ok, a response without it, a
\* rejected fetch, or a response whose res.text() rejects.
ResponsesOf(templates) ==
    [status : {"ok"}, body : templates]
    \cup [status : {"notOk", "rejected", "textRejected"}, body : {<<"Not Found">>}]

\* publish(EVENTS.SHOW_QUOTE_PREVIEW, finalHtml)
QuotePreview(finalHtml) ==
    [name |-> "SHOW_QUOTE_PREVIEW", type |-> "none", message |-> "none",
     total |-> 0, current |-> 0, html |-> finalHtml]

PreviewFailed == Notification("Failed to generate quote preview. See console for details.", "error")

\* console.log / console.error of a line and the object after it
Logged(line, data) == [line |-> line, data |-> data]

Printed(events, log) == [events |-> events, logged |-> log]

\* A continuation that takes the text of every response, ok or not.
PrintableQuoteAnyResponse(quoteResponse, detailsResponse, form) ==
    IF quoteResponse.status \in {"ok", "notOk"} /\ detailsResponse.status \in {"ok", "notOk"}
    THEN LET templateData == prepareTemplateData(getF3OverrideData(form))
         IN Printed(<<QuotePreview(populateTemplate(quoteResponse.body, templateData)
                                   \o populateTemplate(detailsResponse.body, templateData))>>,
                    logged)
    ELSE Printed(<<PreviewFailed>>, Logged("Error generating printable quote:", <<>>))

\* handlePrintableQuoteRequest() after its await: Promise.all rejects when a
\* response is not ok or a promise rejects, and the catch block runs.
PrintableQuote(quoteResponse, detailsResponse, form) ==
    IF quoteResponse.status = "ok" /\ detailsResponse.status = "ok"
    THEN LET f3Data == getF3OverrideData(form)
             templateData == prepareTemplateData(f3Data)
             populatedQuotePage == populateTemplate(quoteResponse.body, templateData)
             populatedDetailsPage == populateTemplate(detailsResponse.body, templateData)
             finalHtml == populatedQuotePage \o populatedDetailsPage
         IN Printed(<<QuotePreview(finalHtml)>>, logged)
    ELSE Printed(<<PreviewFailed>>, Logged("Error generating printable quote:", <<>>))

\* handlePrintableQuoteRequest() of the first version up to its await: the
\* two fetches start and the call returns its promise.
handlePrintableQuoteRequest_v1 ==
    /\ fetching < MaxFetching
    /\ fetching' = fetching + 1
    /\ call' = [handler |-> "handlePrintableQuoteRequest_v1", input |-> "none"]
    /\ published' = <<>>
    /\ dispatched' = <<>>
    /\ ret' = "promise"
    /\ UNCHANGED <<quoteData, ui, dialog, activeTab, logged, ctxVars>>

\* The two fetches of one request have settled and the handler resumes.
templatesSettled(quoteResponse, detailsResponse, form) ==
    /\ fetching > 0
    /\ fetching' = fetching - 1
    /\ call' = [handler |-> "templatesSettled",
                input |-> [quote |-> quoteResponse, details |-> detailsResponse, form |-> form]]
    /\ published' = PrintableQuote(quoteResponse, detailsResponse, form).events
    /\ logged' = PrintableQuote(quoteResponse, detailsResponse, form).logged
    /\ dispatched' = <<>>
    /\ ret' = "undefined"
    /\ UNCHANGED <<quoteData, ui, dialog, activeTab, ctxVars>>

(***************************************************************************)
(* WorkflowService: the printable quote, refactored version (Stage 1)      *)
(***************************************************************************)

\* An amount of money is an integer count of twentieths of a cent, so that
\* a tenth and a half of every amount the handler computes from whole-cent
\* prices is again an amount.
Cents(c) == 20 * c

\* value * 0.1
TimesTenth(value) == value \div 10

\* value * 0.5
TimesHalf(value) == value \div 2

\* The amount lies midway between two cents: toFixed(2) then goes by the
\* binary value of the double, above or below the midpoint.
IsTie(value) == (value % Cents(1)) * 2 = Cents(1)

\* _formatCurrency(value): `$${value.toFixed(2)}` for a number; `up` is the
\* side a midway amount is rounded to.
formatCurrency(value, up) ==
    LET whole == value \div Cents(1)
        rest  == value % Cents(1)
        cents == IF rest * 2 > Cents(1) \/ (rest * 2 = Cents(1) /\ up)
                 THEN whole + 1 ELSE whole
        abs   == IF cents < 0 THEN 0 - cents ELSE cents
    IN <<"$">> \o (IF cents < 0 THEN <<"-">> ELSE <<>>) \o ToText(abs \div 100)
       \o <<".", Digits[((abs % 100) \div 10) + 1], Digits[(abs % 10) + 1]>>

\* A number field of an item, undefined (null) when the item has none.
NumberOf(item, field) == IF field \in DOMAIN item THEN item[field] ELSE Null

\* A text field of an item, falsy ('') when the item has none.
TextOf(item, field) == IF field \in DOMAIN item THEN item[field] ELSE ""

\* An item of the quote with its price and fabric.
PricedItem(width, height, dual, linePrice, fabric, fabricType) ==
    [width |-> width, height |-> height, dual |-> dual, linePrice |-> linePrice,
     fabric |-> fabric, fabricType |-> fabricType]

\* A quote of priced items with a blank row between them.
PricedQuote ==
    QuoteWith(<<PricedItem(Num(600), Num(900), "D", Num(Cents(5005)), "Light-Filter Linen", "LF"),
                Item(Null, Null, ""),
                PricedItem(Num(800), Num(1200), "", Num(Cents(7000)), "", "B2")>>)

\* A quote of a sized item that carries no price and an item without height.
UnpricedQuote ==
    QuoteWith(<<Item(Num(600), Num(900), "D"),
                PricedItem(Num(700), Num(0), "", Num(Cents(100)), "", "SN")>>)

\* _getItems(): quoteData.products[productKey]?.items || []
getItems(q) ==
    IF q.currentProduct \in DOMAIN q.products THEN q.products[q.currentProduct].items ELSE <<>>

\* items.filter((i) => i.width && i.height)
ValidItems(items) ==
    LET Valid(i) == TruthyNum(i.width) /\ TruthyNum(i.height) IN SelectSeq(items, Valid)

\* _getFabricRowClass(item)
getFabricRowClass(item) ==
    IF TextOf(item, "fabric") \in {"Light-Filter Linen", "light-filter sheer"}
    THEN "bg-light-filter"
    ELSE IF TextOf(item, "fabricType") \in {"B1", "B2", "B3", "B4", "B5"}
    THEN "bg-blockout"
    ELSE IF TextOf(item, "fabricType") = "SN" THEN "bg-screen"
    ELSE ""

\* What calculateF2Summary(quoteData, ui) returns.
F2Summary(firstRbPrice, disRbPrice, acceSum, eAcceSum, deliveryFee, installFee, removalFee, mulTimes) ==
    [threw |-> FALSE, firstRbPrice |-> firstRbPrice, disRbPrice |-> disRbPrice,
     acceSum |-> acceSum, eAcceSum |-> eAcceSum, deliveryFee |-> deliveryFee,
     installFee |-> installFee, removalFee |-> removalFee, mulTimes |-> mulTimes]

\* A calculateF2Summary call that throws.
SummaryThrows == [F2Summary(0, 0, 0, 0, 0, 0, 0, 1) EXCEPT !.threw = TRUE]

\* Summaries of whole-cent prices: no blinds, a discount, a price raised by
\* the multiplier; with accessories and fees present or absent.
Summaries ==
    {F2Summary(rb[1], rb[2], fees[1], fees[2], fees[3], fees[4], fees[5], rb[3]) :
        rb \in {<<0, 0, 1>>, <<Cents(12005), Cents(10005), 1>>,
                <<Cents(12000), Cents(10010), 1>>, <<Cents(5000), Cents(10000), 2>>},
        fees \in {<<0, 0, 0, 0, 0>>,
                  <<Cents(1500), 0, 0, 0, 0>>,
                  <<0, Cents(25000), 0, 0, 0>>,
                  <<0, 0, Cents(5000), 0, 0>>,
                  <<0, 0, 0, Cents(2000), Cents(1000)>>,
                  <<Cents(1500), Cents(25000), Cents(5000), Cents(2000), Cents(1000)>>}}

\* ui.f2: the quantities and the exclusion flags of the three fees.
F2State(deliveryQty, installQty, removalQty, deliveryOut, installOut, removalOut) ==
    [deliveryQty |-> deliveryQty, installQty |-> installQty, removalQty |-> removalQty,
     deliveryFeeExcluded |-> deliveryOut, installFeeExcluded |-> installOut,
     removalFeeExcluded |-> removalOut]

\* createRow(...) of _preparePage1Items: the row, and the discounted price
\* it adds to the subtotal.
createRow(description, details, qty, price, discountedPrice, isExcluded) ==
    [no |-> 0, description |-> description, details |-> details, qty |-> qty,
     price |-> formatCurrency(price, FALSE), struck |-> isExcluded,
     discountedPrice |-> formatCurrency(discountedPrice, FALSE),
     added |-> discountedPrice]

\* `${qty || fallback}` of a row's quantity cell
QtyOr(qty, fallback) == IF TruthyNum(qty) THEN ToText(qty[1]) ELSE ToText(fallback)

RECURSIVE SumAdded(_)
\* subtotal += discountedPrice, over the rows created
SumAdded(rows) ==
    IF rows = <<>> THEN 0 ELSE rows[1].added + SumAdded(Tail(rows))

\* _preparePage1Items(summaryData, quoteData, ui): { html, subtotal }. The
\* six sections in order, each creating its row when its price is above 0;
\* a row takes the next itemCounter.
preparePage1Items(summaryData, q, u) ==
    LET validItemCount == Len(ValidItems(getItems(q)))
        Section(price, row) == IF price > 0 THEN <<row>> ELSE <<>>
        created ==
            Section(summaryData.disRbPrice,
                    createRow("Roller Blinds", "See attached list for details.",
                              ToText(validItemCount), summaryData.firstRbPrice,
                              summaryData.disRbPrice, FALSE))
            \o Section(summaryData.acceSum,
                       createRow("Installation Accessories", "Dual Brackets, HD Winders, etc.",
                                 <<"N/A">>, summaryData.acceSum, summaryData.acceSum, FALSE))
            \o Section(summaryData.eAcceSum,
                       createRow("Motorised Sets & Accessories", "Motors, Remotes, Chargers, etc.",
                                 <<"N/A">>, summaryData.eAcceSum, summaryData.eAcceSum, FALSE))
            \o Section(summaryData.deliveryFee,
                       createRow("Delivery", "", QtyOr(u.f2.deliveryQty, 1),
                                 summaryData.deliveryFee,
                                 IF u.f2.deliveryFeeExcluded THEN 0 ELSE summaryData.deliveryFee,
                                 u.f2.deliveryFeeExcluded))
            \o Section(summaryData.installFee,
                       createRow("Installation", "", QtyOr(u.f2.installQty, validItemCount),
                                 summaryData.installFee,
                                 IF u.f2.installFeeExcluded THEN 0 ELSE summaryData.installFee,
                                 u.f2.installFeeExcluded))
            \o Section(summaryData.removalFee,
                       createRow("Removal", "", QtyOr(u.f2.removalQty, 0),
                                 summaryData.removalFee,
                                 IF u.f2.removalFeeExcluded THEN 0 ELSE summaryData.removalFee,
                                 u.f2.removalFeeExcluded))
    IN [rows |-> [i \in 1..Len(created) |-> [created[i] EXCEPT !.no = i]],
        subtotal |-> SumAdded(created)]

\* Totals whose balance is what is left of the subtotal after the deposit.
QuoteTotalsBalanceOfSubtotal(subtotal, summaryData) ==
    LET gst == TimesTenth(subtotal)
        grandTotal == subtotal + gst
        deposit == TimesHalf(grandTotal)
    IN [subtotal |-> subtotal, gst |-> gst, grandTotal |-> grandTotal,
        deposit |-> deposit, balance |-> subtotal - deposit,
        savings |-> summaryData.firstRbPrice - summaryData.disRbPrice]

\* The totals of handlePrintableQuoteRequest.
QuoteTotals(subtotal, summaryData) ==
    LET gst == TimesTenth(subtotal)
        grandTotal == subtotal + gst
        deposit == TimesHalf(grandTotal)
        balance == grandTotal - deposit
        savings == summaryData.firstRbPrice - summaryData.disRbPrice
    IN [subtotal |-> subtotal, gst |-> gst, grandTotal |-> grandTotal,
        deposit |-> deposit, balance |-> balance, savings |-> savings]

\* configManager.getPriceMatrix(fabricType)?.name
PriceMatrixName(fabricType) ==
    IF fabricType \in {"B1", "B2", "B3", "B4", "B5"} THEN "Blockout"
    ELSE IF fabricType = "SN" THEN "Screen" ELSE ""

\* The table returned for nothing to list: ''
NoTable == [rows |-> <<>>, total |-> <<>>]

RECURSIVE SumLinePrices(_, _)
\* validItems.reduce((sum, item) => sum + (item.linePrice || 0) * mul, 0)
SumLinePrices(validItems, mul) ==
    IF validItems = <<>> THEN 0
    ELSE SumLinePrices(SubSeq(validItems, 1, Len(validItems) - 1), mul)
         + NumOr0(NumberOf(validItems[Len(validItems)], "linePrice")) * mul

\* _preparePage2RollerBlindsTable(quoteData, ui, mulTimes)
preparePage2RollerBlindsTable(q, u, mulTimes) ==
    LET validItems == ValidItems(getItems(q))
        mul == mulTimes
    IN IF Len(validItems) = 0 THEN NoTable
       ELSE [rows |-> [index \in 1..Len(validItems) |->
                         LET item == validItems[index] IN
                         [no |-> index,
                          rowClass |-> getFabricRowClass(item),
                          fabricName |-> IF TextOf(item, "fabric") # ""
                                         THEN TextOf(item, "fabric")
                                         ELSE PriceMatrixName(TextOf(item, "fabricType")),
                          dual |-> item.dual = "D",
                          price |-> formatCurrency(NumOr0(NumberOf(item, "linePrice")) * mul, FALSE)]],
             total |-> formatCurrency(SumLinePrices(validItems, mul), FALSE)]

\* calculationService.calculateF1ComponentPrice(type, qty)
calculateF1ComponentPrice(type, qty) ==
    (CASE type = "motor" -> Cents(25000)
       [] type = "remote-1ch" -> Cents(10000)
       [] type = "remote-16ch" -> Cents(20000)) * NumOr0(qty)

\* ui.drive* and ui.f1 with no drive accessories.
NoDrive ==
    [driveMotorTotalPrice |-> Null, driveChargerTotalPrice |-> Null,
     driveCordTotalPrice |-> Null, driveChargerCount |-> Null, driveCordCount |-> Null,
     f1 |-> InitialUi.f1]

\* ui.drive* and ui.f1 with two motors, two 1-channel remotes and a charger.
TwoMotors ==
    [driveMotorTotalPrice |-> Num(Cents(50000)), driveChargerTotalPrice |-> Num(Cents(5000)),
     driveCordTotalPrice |-> Num(0), driveChargerCount |-> Num(1), driveCordCount |-> Num(0),
     f1 |-> [InitialUi.f1 EXCEPT !.remote_1ch_qty = Num(2)]]

\* The quote, ui.f2 and drive settings a printable quote is requested in.
PrintSettings ==
    {<<QuoteWithoutProduct, F2State(Null, Null, Null, FALSE, FALSE, FALSE), NoDrive>>,
     <<InitialQuote, F2State(Null, Null, Null, TRUE, FALSE, FALSE), NoDrive>>,
     <<PricedQuote, F2State(Null, Null, Null, FALSE, FALSE, FALSE), TwoMotors>>,
     <<PricedQuote, F2State(Num(2), Null, Null, TRUE, FALSE, FALSE), NoDrive>>,
     <<PricedQuote, F2State(Null, Num(3), Null, FALSE, TRUE, FALSE), TwoMotors>>,
     <<PricedQuote, F2State(Null, Null, Num(1), TRUE, TRUE, TRUE), NoDrive>>,
     <<UnpricedQuote, F2State(Null, Null, Null, FALSE, FALSE, TRUE), TwoMotors>>,
     <<UnpricedQuote, F2State(Num(1), Num(1), Num(1), TRUE, TRUE, TRUE), NoDrive>>}

\* The rows of `listed` whose price is above zero, in order.
PricedRows(listed) == LET Priced(row) == row.amount > 0 IN SelectSeq(listed, Priced)

\* _preparePage2MotorisedTable(ui)
preparePage2MotorisedTable(u) ==
    LET motorPrice == NumOr0(u.driveMotorTotalPrice)
        remote1chPrice == calculateF1ComponentPrice("remote-1ch", u.f1.remote_1ch_qty)
        remote16chPrice == calculateF1ComponentPrice("remote-16ch", u.f1.remote_16ch_qty)
        chargerPrice == NumOr0(u.driveChargerTotalPrice)
        cordPrice == NumOr0(u.driveCordTotalPrice)
        totalMotorisedPrice ==
            motorPrice + remote1chPrice + remote16chPrice + chargerPrice + cordPrice
        Line(item, qty, amount) ==
            [item |-> item, qty |-> qty, amount |-> amount,
             price |-> formatCurrency(amount, FALSE)]
    IN IF totalMotorisedPrice = 0 THEN NoTable
       ELSE [rows |-> PricedRows(
                 <<Line("Motor", ToText(motorPrice \div calculateF1ComponentPrice("motor", Num(1))),
                        motorPrice),
                   Line("Remote", FieldText(u.f1.remote_1ch_qty) \o <<" x 1 CH">>, remote1chPrice),
                   Line("Remote", FieldText(u.f1.remote_16ch_qty) \o <<" x 16 CH">>, remote16chPrice),
                   Line("Charger", FieldText(u.driveChargerCount), chargerPrice),
                   Line("3M Cord", FieldText(u.driveCordCount), cordPrice)>>),
             total |-> formatCurrency(totalMotorisedPrice, FALSE)]

\* new Date(text).toLocaleDateString('en-AU') of a date input's value
LocaleDate(text) ==
    IF Len(text) = 5 /\ text[2] = "-" /\ text[4] = "-"
    THEN <<text[5], "/", text[3], "/", text[1]>>
    ELSE <<"Invalid Date">>

\* The sides midway amounts are rounded to, one per distinct total; a total
\* that is not midway has one rendering.
TieSides(totals) ==
    {side \in [gst : BOOLEAN, grandTotal : BOOLEAN, deposit : BOOLEAN] :
        /\ side.gst => IsTie(totals.gst)
        /\ side.grandTotal => IsTie(totals.grandTotal)
        /\ side.deposit => IsTie(totals.deposit)}

\* The templateData object of handlePrintableQuoteRequest.
TemplateData(f3Data, page1, totals, side, rollerBlindsTableHtml, motorisedTableHtml) ==
    [quoteId |-> f3Data.quoteId,
     issueDate |-> IF f3Data.issueDate # <<>> THEN LocaleDate(f3Data.issueDate) ELSE <<>>,
     dueDate |-> IF f3Data.dueDate # <<>> THEN LocaleDate(f3Data.dueDate) ELSE <<>>,
     customerInfoHtml |-> formatCustomerInfo(f3Data, "Valued Customer", "Address to be provided"),
     itemsTableBody |-> page1.rows,
     subtotal |-> formatCurrency(totals.subtotal, FALSE),
     gst |-> formatCurrency(totals.gst, side.gst),
     grandTotal |-> formatCurrency(totals.grandTotal, side.grandTotal),
     deposit |-> formatCurrency(totals.deposit, side.deposit),
     balance |-> formatCurrency(totals.balance, side.deposit),
     savings |-> formatCurrency(totals.savings, FALSE),
     termsAndConditions |-> BreakLines(f3Data.termsConditions),
     appendixQuoteId |-> f3Data.quoteId,
     rollerBlindsTable |-> rollerBlindsTableHtml,
     motorisedAccessoriesTable |-> motorisedTableHtml]

DataPrepared ==
    Notification("Template data prepared. Please check the console for verification.", "none")

DataFailed == Notification("Failed to generate quote data. See console for details.", "error")

\* A request that goes on to render and publish the preview, as Stage 2 will.
TemplateDataRequestRendering(form, summaryData, side, q, u) ==
    IF summaryData.threw
    THEN Printed(<<DataFailed>>, Logged("Error generating printable quote data:", <<>>))
    ELSE Printed(<<DataPrepared, QuotePreview(getF3OverrideData(form).quoteId)>>,
                 Logged("--- TEMPLATE DATA FOR VERIFICATION ---", <<>>))

\* The body of handlePrintableQuoteRequest(): its events and its console line.
TemplateDataRequest(form, summaryData, side, q, u) ==
    IF summaryData.threw
    THEN Printed(<<DataFailed>>, Logged("Error generating printable quote data:", <<>>))
    ELSE LET f3Data == getF3OverrideData(form)
             page1 == preparePage1Items(summaryData, q, u)
             totals == QuoteTotals(page1.subtotal, summaryData)
             templateData ==
                 TemplateData(f3Data, page1, totals, side,
                              preparePage2RollerBlindsTable(q, u, summaryData.mulTimes),
                              preparePage2MotorisedTable(u))
         IN Printed(<<DataPrepared>>, Logged("--- TEMPLATE DATA FOR VERIFICATION ---", templateData))

\* handlePrintableQuoteRequest() of the refactored version.
handlePrintableQuoteRequest(form, summaryData, side) ==
    /\ call' = [handler |-> "handlePrintableQuoteRequest",
                input |-> [form |-> form, summary |-> summaryData, side |-> side]]
    /\ published' = TemplateDataRequest(form, summaryData, side, quoteData, ui).events
    /\ logged' = TemplateDataRequest(form, summaryData, side, quoteData, ui).logged
    /\ dispatched' = <<>>
    /\ ret' = "promise"
    /\ UNCHANGED <<quoteData, ui, dialog, activeTab, fetching, ctxVars>>

\* The application with a quote to print and the F2 and drive settings.
PrintInit ==
    /\ factories = [n \in Names |-> NoFactory]
    /\ instances = [n \in Names |-> Absent]
    /\ invoked = [n \in Names |-> 0]
    /\ built = [n \in Names |-> 0]
    /\ ctxRet = [op |-> "new", name |-> "none", out |-> Returned(Absent)]
    /\ firstGot = [n \in Names |-> Absent]
    /\ \E setting \in PrintSettings :
          /\ quoteData = setting[1]
          /\ ui = [f2 |-> setting[2]] @@ setting[3] @@ InitialUi
    /\ dialog = NoDialog
    /\ activeTab = "none"
    /\ published = <<>>
    /\ dispatched = <<>>
    /\ ret = "none"
    /\ call = NoCall
    /\ fetching = 0
    /\ logged = NoLog
    /\ pc = At("idle", 0)
    /\ uiElements = {}
    /\ priceMatrices = "unloaded"

PreviewNext ==
    \/ handlePrintableQuoteRequest_v1
    \/ \E quoteResponse \in ResponsesOf(QuoteTemplates) :
       \E detailsResponse \in ResponsesOf(DetailsTemplates) :
       \E form \in F3Forms : templatesSettled(quoteResponse, detailsResponse, form)

TemplateDataNext ==
    \E form \in F3Forms : \E summaryData \in Summaries \cup {SummaryThrows} :
    \E side \in TieSides(QuoteTotals(preparePage1Items(summaryData, quoteData, ui).subtotal,
                                     summaryData)) :
       handlePrintableQuoteRequest(form, summaryData, side)

(***************************************************************************)
(* AppContext.initialize                                                   *)
(***************************************************************************)

Statement(op, name) == [op |-> op, name |-> name]

\* The statements of initialize up to its await: register(name, factory)
\* twice and the awaited get('configManager').loadPriceMatrices().
ConfigStatements ==
    <<Statement("register", "eventAggregator"),
      Statement("register", "configManager"),
      Statement("load", "configManager")>>

\* The statements of initializeCoreServices and initializeUIComponents:
\* register(name, factory), this.instances.name = uiElements.name and
\* this.get(name).
ComponentStatements ==
    [i \in 1..14 |-> Statement("register", AppNameSeq[i + 2])]
    \o [i \in 1..3 |-> Statement("store", AppNameSeq[i + 16])]
    \o <<Statement("get", "workflowService"), Statement("get", "quotePreviewComponent")>>
    \o [i \in 1..4 |-> Statement("register", AppNameSeq[i + 19])]
    \o <<Statement("get", "rightPanelComponent"), Statement("get", "f1CostView"),
         Statement("get", "f2SummaryView"), Statement("get", "f3QuotePrepView"),
         Statement("get", "f4ActionsView"), Statement("get", "leftPanelComponent"),
         Statement("get", "detailConfigView")>>
    \o [i \in 1..6 |-> Statement("register", AppNameSeq[i + 23])]

\* An initialize that sets up the core services and UI components first and
\* the ConfigManager last.
ProgramConfigLast == ComponentStatements \o ConfigStatements

\* The statements of initialize(uiElements) in order.
Program == ConfigStatements \o ComponentStatements

\* The statement initialize is at.
Current == Program[pc.at]

Runs(op) == pc.status = "running" /\ pc.at <= Len(Program) /\ Current.op = op

\* initialize(uiElements) is called; `elements` are the names whose entry of
\* uiElements holds a component.
initialize(elements) ==
    /\ pc.status = "idle"
    /\ pc' = At("running", 1)
    /\ uiElements' = elements
    /\ UNCHANGED <<factories, instances, invoked, built, ctxRet, firstGot, priceMatrices, wfVars>>

\* this.register(name, factory) inside initialize
registerStatement ==
    /\ Runs("register")
    /\ factories' = [factories EXCEPT ![Current.name] = AppFactory]
    /\ ctxRet' = [op |-> "register", name |-> Current.name, out |-> Returned(Absent)]
    /\ pc' = At("running", pc.at + 1)
    /\ UNCHANGED <<instances, invoked, built, firstGot, uiElements, priceMatrices, wfVars>>

\* this.instances.name = uiElements.name
storeStatement ==
    /\ Runs("store")
    /\ instances' = [instances EXCEPT ![Current.name] =
                        IF Current.name \in uiElements THEN NewObject(Current.name, 0)
                        ELSE Absent]
    /\ pc' = At("running", pc.at + 1)
    /\ UNCHANGED <<factories, invoked, built, ctxRet, firstGot, uiElements, priceMatrices, wfVars>>

\* this.get(name) inside initialize: an exception rejects initialize.
getStatement ==
    /\ Runs("get")
    /\ LET r == Resolve(Context, Current.name) IN
       /\ factories' = r.ctx.factories
       /\ instances' = r.ctx.instances
       /\ invoked' = r.ctx.invoked
       /\ built' = r.ctx.built
       /\ ctxRet' = [op |-> "get", name |-> Current.name, out |-> r.out]
       /\ firstGot' = IF ~r.out.threw /\ firstGot[Current.name] = Absent
                      THEN [firstGot EXCEPT ![Current.name] = r.out.value]
                      ELSE firstGot
       /\ pc' = IF r.out.threw THEN At("rejected", pc.at) ELSE At("running", pc.at + 1)
    /\ UNCHANGED <<uiElements, priceMatrices, wfVars>>

\* await this.get('configManager').loadPriceMatrices(): the instance is
\* created, the load starts and initialize waits for it.
loadStatement ==
    /\ Runs("load")
    /\ LET r == Resolve(Context, Current.name) IN
       /\ factories' = r.ctx.factories
       /\ instances' = r.ctx.instances
       /\ invoked' = r.ctx.invoked
       /\ built' = r.ctx.built
       /\ ctxRet' = [op |-> "get", name |-> Current.name, out |-> r.out]
       /\ firstGot' = IF ~r.out.threw /\ firstGot[Current.name] = Absent
                      THEN [firstGot EXCEPT ![Current.name] = r.out.value]
                      ELSE firstGot
       /\ pc' = IF r.out.threw THEN At("rejected", pc.at) ELSE At("awaiting", pc.at)
       /\ priceMatrices' = IF r.out.threw THEN priceMatrices ELSE "loading"
    /\ UNCHANGED <<uiElements, wfVars>>

\* The promise of loadPriceMatrices() settles: fulfilled, initialize goes
\* on with its next statement; rejected, the await throws and initialize
\* rejects.
loadPriceMatricesSettled(fulfilled) ==
    /\ pc.status = "awaiting"
    /\ priceMatrices' = IF fulfilled THEN "loaded" ELSE "failed"
    /\ pc' = IF fulfilled THEN At("running", pc.at + 1) ELSE At("rejected", pc.at)
    /\ UNCHANGED <<factories, instances, invoked, built, ctxRet, firstGot, uiElements, wfVars>>

\* console.log('AppContext Initialized.'): initialize returns.
initialized ==
    /\ pc.status = "running"
    /\ pc.at > Len(Program)
    /\ pc' = At("done", pc.at)
    /\ UNCHANGED <<factories, instances, invoked, built, ctxRet, firstGot,
                   uiElements, priceMatrices, wfVars>>

\* get(name) called by other code while initialize is not running a statement.
getOutside(name) ==
    /\ pc.status # "running"
    /\ get(name)

\* A fresh context over the names of the application.
InitializeInit ==
    /\ factories = [n \in AppNames |-> NoFactory]
    /\ instances = [n \in AppNames |-> Absent]
    /\ invoked = [n \in AppNames |-> 0]
    /\ built = [n \in AppNames |-> 0]
    /\ ctxRet = [op |-> "new", name |-> "none", out |-> Returned(Absent)]
    /\ firstGot = [n \in AppNames |-> Absent]
    /\ quoteData = InitialQuote
    /\ ui = InitialUi
    /\ dialog = NoDialog
    /\ activeTab = "none"
    /\ published = <<>>
    /\ dispatched = <<>>
    /\ ret = "none"
    /\ call = NoCall
    /\ fetching = 0
    /\ logged = NoLog
    /\ pc = At("idle", 0)
    /\ uiElements = {}
    /\ priceMatrices = "unloaded"

InitializeNext ==
    \/ \E elements \in SUBSET {"leftPanelComponent", "rightPanelComponent",
                                "quotePreviewComponent"} : initialize(elements)
    \/ registerStatement
    \/ storeStatement
    \/ getStatement
    \/ loadStatement
    \/ \E fulfilled \in BOOLEAN : loadPriceMatricesSettled(fulfilled)
    \/ initialized
    \/ \E name \in Names : getOutside(name)

(***************************************************************************)
(* Specifications                                                          *)
(***************************************************************************)

\* The container after constructor(), then register and get calls in any
\* order; the application state is the one it starts with.
SpecContext == WorkflowInit /\ [][CtxNext]_vars

\* The two distribution dialogs over a quote and a remote count.
SpecDistribution == DistInit /\ [][DistNext]_vars

\* Navigation between the views and loading of quote files.
SpecWorkflow == WorkflowInit /\ [][WorkflowNext]_vars

\* First version: requests for the quote preview and their template fetches.
SpecPreview == WorkflowInit /\ [][PreviewNext]_vars

\* Refactored version: requests for the printable quote's template data.
SpecTemplateData == PrintInit /\ [][TemplateDataNext]_vars

\* One call of initialize on a fresh context, with gets by other code.
SpecInitialize == InitializeInit /\ [][InitializeNext]_vars

(***************************************************************************)
(* Claims about AppContext                                                 *)
(***************************************************************************)

\* C1: across any sequence of register and get calls, each dependency is
\* created only once (no name has an instance built by a factory more than
\* once) and every get(name) that returns gives the value the first
\* get(name) returned.
C1_SingletonOnce ==
    /\ \A n \in Names : built[n] <= 1
    /\ (ctxRet.op = "get" /\ ~ctxRet.out.threw)
          => ctxRet.out.value = firstGot[ctxRet.name]

\* C2: a get(name) with neither a stored instance nor a registered factory
\* throws 'Dependency not found: <name>' and changes neither map.
C2_GetUnknownThrows ==
    [][\A n \in Names :
          (ctxRet'.op = "get" /\ ctxRet'.name = n
             /\ instances[n] = Absent /\ factories[n] = NoFactory)
          => /\ ctxRet'.out.threw
             /\ ctxRet'.out.message = "Dependency not found"
             /\ ctxRet'.out.name = n
             /\ factories' = factories
             /\ instances' = instances]_vars

\* C2 witness: a get of an unknown name has thrown while another name holds
\* a factory and a built instance.
C2_Witness ==
    /\ ctxRet.op = "get"
    /\ ctxRet.out.threw
    /\ ctxRet.out.name = ctxRet.name
    /\ factories[ctxRet.name] = NoFactory
    /\ \E m \in Names : factories[m] # NoFactory /\ Truthy(instances[m])

\* C3: register(name, factory) stores the factory under the name, runs no
\* factory and leaves the instances map unchanged; a factory runs only in a
\* get step.
C3_RegisterStoresFactory ==
    [][/\ ctxRet'.op = "register"
          => /\ invoked' = invoked
             /\ instances' = instances
             /\ factories'[ctxRet'.name] # NoFactory
             /\ \A m \in Names \ {ctxRet'.name} : factories'[m] = factories[m]
       /\ invoked' # invoked => ctxRet'.op = "get"]_vars

\* C3 witness: a factory has just been registered for a name whose instance
\* is still absent and whose factory has never run.
C3_Witness ==
    /\ ctxRet.op = "register"
    /\ factories[ctxRet.name] # NoFactory
    /\ instances[ctxRet.name] = Absent
    /\ invoked[ctxRet.name] = 0

(***************************************************************************)
(* Claims about the distribution dialogs                                   *)
(***************************************************************************)

\* The two quantities the Confirm callback parses from the fields.
FirstQty == ParseInt(dialog.first)

SecondQty == ParseInt(dialog.second)

\* Both parsed quantities are integers >= 0.
BothNonNegative ==
    FirstQty # NaN /\ SecondQty # NaN /\ FirstQty[1] >= 0 /\ SecondQty[1] >= 0

\* Both parsed quantities are integers > 0.
BothPositive ==
    FirstQty # NaN /\ SecondQty # NaN /\ FirstQty[1] > 0 /\ SecondQty[1] > 0

SumsToTotal == BothNonNegative /\ FirstQty[1] + SecondQty[1] = dialog.total

\* A step that is a call of the given handler or callback.
Calls(handler) == call'.handler = handler

RECURSIVE CountDual(_)
\* How many items of a list carry dual = 'D'.
CountDual(items) ==
    IF items = <<>> THEN 0
    ELSE (IF Head(items).dual = "D" THEN 1 ELSE 0) + CountDual(Tail(items))

\* C4: the remote dialog's total is the remote count read at its opening;
\* Confirm returns true and dispatches setF1RemoteDistribution(qty1ch, qty16ch)
\* exactly when both parsed quantities are integers >= 0 that sum to that
\* total, and dispatches nothing otherwise; so a committed distribution
\* always sums to the total.
C4_RemoteConfirm ==
    [][/\ dialog'.kind = "remote" => dialog'.total = NumOr0(ui'.driveRemoteCount)
       /\ Calls("confirmRemote") =>
            /\ (ret' = "true") <=> SumsToTotal
            /\ dispatched' = IF SumsToTotal
                             THEN <<setF1RemoteDistribution(FirstQty[1], SecondQty[1])>>
                             ELSE <<>>
       /\ ui'.f1.remote_16ch_qty # Null =>
            /\ ui'.f1.remote_1ch_qty # Null
            /\ ui'.f1.remote_1ch_qty[1] >= 0
            /\ ui'.f1.remote_16ch_qty[1] >= 0
            /\ ui'.f1.remote_1ch_qty[1] + ui'.f1.remote_16ch_qty[1]
                 = NumOr0(ui'.driveRemoteCount)]_vars

\* C4 witness: a distribution of two remotes, one of each kind, was committed.
C4_Witness ==
    /\ ret = "true"
    /\ dispatched = <<setF1RemoteDistribution(1, 1)>>
    /\ ui.f1.remote_1ch_qty = Num(1)
    /\ ui.f1.remote_16ch_qty = Num(1)
    /\ ui.driveRemoteCount = Num(2)

\* C5: the dual dialog's total is floor(d / 2) for the d items of the current
\* product with dual = 'D'; Confirm returns true and dispatches
\* setF1DualDistribution(qtyCombo, qtySlim) exactly when both parsed
\* quantities are integers >= 0 that sum to that total.
C5_DualConfirm ==
    [][/\ dialog'.kind = "dual" =>
            LET d == CountDual(quoteData'.products[quoteData'.currentProduct].items)
            IN 2 * dialog'.total <= d /\ d <= 2 * dialog'.total + 1
       /\ Calls("confirmDual") =>
            /\ (ret' = "true") <=> SumsToTotal
            /\ dispatched' = IF SumsToTotal
                             THEN <<setF1DualDistribution(FirstQty[1], SecondQty[1])>>
                             ELSE <<>>]_vars

\* C5 witness: with three dual items (one pair), the pair was committed as slim.
C5_Witness ==
    /\ quoteData.currentProduct \in DOMAIN quoteData.products
    /\ CountDual(quoteData.products[quoteData.currentProduct].items) = 3
    /\ ret = "true"
    /\ dispatched = <<setF1DualDistribution(0, 1)>>
    /\ ui.f1.dual_slim_qty = Num(1)

\* C6 as stated: in both dialogs Confirm accepts a distribution only when each
\* quantity is a positive number, and otherwise rejects it with the
\* 'Quantities must be positive numbers.' notification.
C6_PositiveOnly ==
    [][(Calls("confirmRemote") \/ Calls("confirmDual")) =>
          /\ ret' = "true" => BothPositive
          /\ ~BothPositive => (ret' = "false" /\ published' = <<QuantitiesError>>)]_vars

\* C6 amended: in both dialogs Confirm accepts a distribution only when each
\* parsed quantity is an integer >= 0 (zero is accepted), and it rejects with
\* the 'Quantities must be positive numbers.' notification exactly when a
\* parsed quantity is NaN or negative.
C6_NonNegativeOnly ==
    [][(Calls("confirmRemote") \/ Calls("confirmDual")) =>
          /\ ret' = "true" => BothNonNegative
          /\ (published' = <<QuantitiesError>>) <=> ~BothNonNegative
          /\ ~BothNonNegative => (ret' = "false" /\ dispatched' = <<>>)]_vars

\* C6 witness: a distribution with a zero quantity was accepted.
C6_Witness ==
    /\ ret = "true"
    /\ published = <<>>
    /\ dispatched = <<setF1RemoteDistribution(0, 2)>>
    /\ ui.f1.remote_1ch_qty = Num(0)

(***************************************************************************)
(* Claims about navigation and file loading                                *)
(***************************************************************************)

\* The items of the current product, none when the product has no entry.
CurrentItems ==
    IF quoteData.currentProduct \in DOMAIN quoteData.products
    THEN quoteData.products[quoteData.currentProduct].items
    ELSE <<>>

\* The current product has data: more than one item, or exactly one item
\* with a truthy (neither null nor 0) width or height.
QuoteHasData ==
    \/ Len(CurrentItems) > 1
    \/ /\ Len(CurrentItems) = 1
       /\ \/ CurrentItems[1].width \notin {Null, Num(0)}
          \/ CurrentItems[1].height \notin {Null, Num(0)}

\* C7: handleUserRequestedLoad publishes exactly one event and dispatches
\* nothing: SHOW_LOAD_CONFIRMATION_DIALOG when the current product has data,
\* TRIGGER_FILE_LOAD otherwise (also when the product has no entry).
C7_UserRequestedLoad ==
    [][Calls("handleUserRequestedLoad") =>
          /\ dispatched' = <<>>
          /\ quoteData' = quoteData
          /\ ui' = ui
          /\ Len(published') = 1
          /\ published'[1].name = IF QuoteHasData
                                  THEN "SHOW_LOAD_CONFIRMATION_DIALOG"
                                  ELSE "TRIGGER_FILE_LOAD"]_vars

\* C7 witness: a load was requested on a quote whose single item has only a
\* height, and the confirmation dialog was asked for.
C7_Witness ==
    /\ call.handler = "handleUserRequestedLoad"
    /\ Len(CurrentItems) = 1
    /\ CurrentItems[1].width = Null
    /\ CurrentItems[1].height # Null
    /\ published = <<Event("SHOW_LOAD_CONFIRMATION_DIALOG")>>

\* C8: when parseFileContent reports success, handleFileLoad dispatches
\* setQuoteData(result.data), resetUi(), setSumOutdated(true) in that order
\* and then publishes one notification that is no error; the state then holds
\* the loaded quote, the initial UI and the sum-outdated flag set.
C8_FileLoadSuccess ==
    [][(Calls("handleFileLoad") /\ call'.input.success) =>
          /\ dispatched' = <<setQuoteData(call'.input.data), resetUi, setSumOutdated(TRUE)>>
          /\ Len(published') = 1
          /\ published'[1].name = "SHOW_NOTIFICATION"
          /\ published'[1].type # "error"
          /\ published'[1].message = call'.input.message
          /\ quoteData' = call'.input.data
          /\ ui' = [InitialUi EXCEPT !.isSumOutdated = TRUE]]_vars

\* C8 witness: a file with two items was loaded over the opening quote and
\* the flag is set on the reset UI.
C8_Witness ==
    /\ call.handler = "handleFileLoad"
    /\ call.input.success
    /\ Len(CurrentItems) = 2
    /\ quoteData = call.input.data
    /\ ui.isSumOutdated
    /\ ui.currentView = "QUICK_QUOTE"

\* C9: when parseFileContent reports failure, handleFileLoad dispatches
\* nothing, leaves quote data and UI as they were, and publishes exactly one
\* SHOW_NOTIFICATION of type 'error' with the parser's message.
C9_FileLoadFailure ==
    [][(Calls("handleFileLoad") /\ ~call'.input.success) =>
          /\ dispatched' = <<>>
          /\ quoteData' = quoteData
          /\ ui' = ui
          /\ published' = <<Notification(call'.input.message, "error")>>]_vars

\* C9 witness: a load failed while the detail view showed other columns, and
\* both are still in place.
C9_Witness ==
    /\ call.handler = "handleFileLoad"
    /\ ~call.input.success
    /\ ui.currentView = "DETAIL_CONFIG"
    /\ ui.visibleColumns = OtherColumns
    /\ published = <<Notification("Unsupported file type.", "error")>>

\* The outcome of going to the quick quote view: the view is QUICK_QUOTE, the
\* columns are the initial ones, no tab was activated.
QuickQuoteOutcome ==
    /\ dispatched' = <<setCurrentView("QUICK_QUOTE"), setVisibleColumns(InitialColumns)>>
    /\ ui'.currentView = "QUICK_QUOTE"
    /\ ui'.visibleColumns = InitialColumns
    /\ activeTab' = activeTab

Published(events, name) == {i \in DOMAIN events : events[i].name = name}

\* C11: in the first version, a printable-quote request publishes nothing
\* until its fetches settle; it then publishes SHOW_QUOTE_PREVIEW exactly
\* once, carrying the populated quote page followed by the populated
\* details page, if and only if both fetches ended with an ok response whose
\* text was read; in that case it publishes no error notification, and in
\* every other case it publishes no preview.
C11_PreviewIffBothOk ==
    [][/\ Calls("handlePrintableQuoteRequest_v1") => published' = <<>>
       /\ Calls("templatesSettled") =>
            LET input == call'.input
                bothOk == input.quote.status = "ok" /\ input.details.status = "ok"
                data == prepareTemplateData(getF3OverrideData(input.form))
            IN /\ Cardinality(Published(published', "SHOW_QUOTE_PREVIEW"))
                    = IF bothOk THEN 1 ELSE 0
               /\ bothOk =>
                    /\ \A i \in DOMAIN published' : published'[i].type # "error"
                    /\ \E i \in DOMAIN published' :
                          /\ published'[i].name = "SHOW_QUOTE_PREVIEW"
                          /\ published'[i].html =
                                populateTemplate(input.quote.body, data)
                                \o populateTemplate(input.details.body, data)]_vars

\* Both templates were fetched for a filled F3 panel and the preview went
\* out with the quote page before the details page.
C11_Witness ==
    /\ call.handler = "templatesSettled"
    /\ call.input.quote.status = "ok" /\ call.input.details.status = "ok"
    /\ call.input.form.quoteId = <<"Q-7">>
    /\ Len(call.input.quote.body) > 1 /\ Len(call.input.details.body) > 1
    /\ Len(published) = 1
    /\ published[1].name = "SHOW_QUOTE_PREVIEW"
    /\ published[1].html[2] = "Q-7"
    /\ published[1].html[Len(published[1].html)] = "<table>[Location]</table>"

\* C12: on every path the refactored handlePrintableQuoteRequest publishes
\* no SHOW_QUOTE_PREVIEW, dispatches nothing and leaves the state as it
\* was, and publishes exactly one event, a SHOW_NOTIFICATION, whose type is
\* 'error' exactly when a step threw.
C12_OnlyNotifies ==
    [][Calls("handlePrintableQuoteRequest") =>
         /\ Published(published', "SHOW_QUOTE_PREVIEW") = {}
         /\ dispatched' = <<>>
         /\ quoteData' = quoteData /\ ui' = ui
         /\ Len(published') = 1
         /\ published'[1].name = "SHOW_NOTIFICATION"
         /\ (published'[1].type = "error") <=> call'.input.summary.threw]_vars

\* A request whose summary calculation threw ended in the one error
\* notification.
C12_Witness ==
    /\ call.handler = "handlePrintableQuoteRequest"
    /\ call.input.summary.threw
    /\ published = <<DataFailed>>
    /\ logged.line = "Error generating printable quote data:"

\* C13: for every request that does not throw, with subtotal the value
\* _preparePage1Items returns (the sum of the discounted prices of its
\* rows): gst is a tenth of subtotal, grandTotal = subtotal + gst, deposit
\* is half of grandTotal, balance = grandTotal - deposit, deposit + balance =
\* grandTotal, savings = firstRbPrice - disRbPrice; and the template data
\* logged carries these totals in currency format.
C13_QuoteTotals ==
    [][Calls("handlePrintableQuoteRequest") /\ ~call'.input.summary.threw =>
         LET summaryData == call'.input.summary
             side == call'.input.side
             page1 == preparePage1Items(summaryData, quoteData, ui)
             totals == QuoteTotals(page1.subtotal, summaryData)
             data == logged'.data
         IN /\ totals.subtotal = SumAdded(page1.rows)
            /\ totals.gst * 10 = totals.subtotal
            /\ totals.grandTotal = totals.subtotal + totals.gst
            /\ totals.deposit * 2 = totals.grandTotal
            /\ totals.balance = totals.grandTotal - totals.deposit
            /\ totals.deposit + totals.balance = totals.grandTotal
            /\ totals.savings = summaryData.firstRbPrice - summaryData.disRbPrice
            /\ data.subtotal = formatCurrency(totals.subtotal, FALSE)
            /\ data.gst = formatCurrency(totals.gst, side.gst)
            /\ data.grandTotal = formatCurrency(totals.grandTotal, side.grandTotal)
            /\ data.deposit = formatCurrency(totals.deposit, side.deposit)
            /\ data.balance = formatCurrency(totals.balance, side.deposit)
            /\ data.savings = formatCurrency(totals.savings, FALSE)]_vars

\* Blinds discounted from $120.00 to $100.10 with every fee excluded: a
\* subtotal of $100.10, GST of $10.01 and a grand total of $110.11.
C13_Witness ==
    /\ call.handler = "handlePrintableQuoteRequest"
    /\ ~call.input.summary.threw
    /\ call.input.summary.installFee > 0
    /\ ui.f2.installFeeExcluded
    /\ logged.line = "--- TEMPLATE DATA FOR VERIFICATION ---"
    /\ logged.data.subtotal = <<"$", "1", "0", "0", ".", "1", "0">>
    /\ logged.data.gst = <<"$", "1", "0", ".", "0", "1">>
    /\ logged.data.grandTotal = <<"$", "1", "1", "0", ".", "1", "1">>
    /\ logged.data.savings = <<"$", "1", "9", ".", "9", "0">>

(***************************************************************************)
(* Claims about AppContext.initialize                                      *)
(***************************************************************************)

\* The core services and UI components: every name but the two that
\* initialize sets up before its await.
CoreAndUiNames == AppNames \ {"eventAggregator", "configManager"}

\* C14: whenever a core service or UI component is registered or
\* instantiated, the configManager instance exists and loadPriceMatrices()
\* has completed; and once loadPriceMatrices has rejected, initialize has
\* rejected and no core service or UI component is registered or held.
C14_ConfigManagerFirst ==
    /\ (\E n \in CoreAndUiNames : factories[n] # NoFactory \/ instances[n] # Absent)
          => Truthy(instances["configManager"]) /\ priceMatrices = "loaded"
    /\ priceMatrices = "failed"
          => /\ pc.status = "rejected"
             /\ \A n \in CoreAndUiNames : factories[n] = NoFactory /\ instances[n] = Absent

\* initialize has returned with the price matrices loaded, the workflow
\* service built and the last UI component registered.
C14_Witness ==
    /\ pc.status = "done"
    /\ priceMatrices = "loaded"
    /\ Truthy(instances["configManager"])
    /\ Truthy(instances["workflowService"])
    /\ factories["uiManager"] = AppFactory

(***************************************************************************)
(* Claims about what the dialogs leave alone                               *)
(***************************************************************************)

\* The event is one error notification.
IsError(event) == event.name = "SHOW_NOTIFICATION" /\ event.type = "error"

\* C15: in both dialogs a Confirm whose two parsed quantities are not both
\* integers >= 0 summing to the total returns false, publishes exactly one
\* event, an error notification, and dispatches nothing; a Cancel
\* dispatches nothing; and after either the distribution quantities of
\* ui.f1 are what they were.
C15_RejectedLeavesState ==
    [][/\ (Calls("confirmRemote") \/ Calls("confirmDual")) /\ ~SumsToTotal =>
            /\ ret' = "false"
            /\ Len(published') = 1
            /\ IsError(published'[1])
            /\ dispatched' = <<>>
            /\ ui'.f1 = ui.f1
       /\ (Calls("cancelRemote") \/ Calls("cancelDual")) =>
            /\ dispatched' = <<>>
            /\ ui'.f1 = ui.f1]_vars

\* A Confirm of the remote dialog was turned down for its sum and the
\* dialog stayed open, with 16-channel remotes still unset.
C15_Witness ==
    /\ call.handler = "confirmRemote"
    /\ ret = "false"
    /\ dialog.kind = "remote"
    /\ BothNonNegative
    /\ FirstQty[1] + SecondQty[1] # dialog.total
    /\ published = <<TotalMismatch(dialog.total, FirstQty[1] + SecondQty[1])>>
    /\ ui.f1.remote_16ch_qty = Null

\* The other field after an input event of `text`, given what it held.
OtherAfterInput(text, other) ==
    LET v == ParseInt(text)
    IN IF v # NaN /\ v[1] >= 0 /\ v[1] <= dialog.total
       THEN ToText(dialog.total - v[1]) ELSE other

\* C16: in both dialogs an input event on one field whose parsed value v
\* is an integer with 0 <= v <= total sets the other field to total - v,
\* after which the two parsed fields sum to the total; an input event with
\* any other value leaves the other field as it was. The event publishes
\* and dispatches nothing.
C16_AutoFill ==
    [][/\ (Calls("input1ch") \/ Calls("inputCombo")) =>
            LET v == ParseInt(call'.input) IN
            /\ dialog'.first = call'.input
            /\ dialog'.second = OtherAfterInput(call'.input, dialog.second)
            /\ (v # NaN /\ v[1] >= 0 /\ v[1] <= dialog.total) =>
                  ParseInt(dialog'.first)[1] + ParseInt(dialog'.second)[1] = dialog.total
       /\ (Calls("input16ch") \/ Calls("inputSlim")) =>
            LET v == ParseInt(call'.input) IN
            /\ dialog'.second = call'.input
            /\ dialog'.first = OtherAfterInput(call'.input, dialog.first)
            /\ (v # NaN /\ v[1] >= 0 /\ v[1] <= dialog.total) =>
                  ParseInt(dialog'.first)[1] + ParseInt(dialog'.second)[1] = dialog.total
       /\ (Calls("input1ch") \/ Calls("inputCombo") \/ Calls("input16ch") \/ Calls("inputSlim")) =>
            /\ published' = <<>>
            /\ dispatched' = <<>>
            /\ dialog'.total = dialog.total]_vars

\* "1.5" was typed for the 16-channel remotes of two: it parses to 1 and
\* the 1-channel field was set to 1.
C16_Witness ==
    /\ call.handler = "input16ch"
    /\ call.input = <<"1", ".", "5">>
    /\ dialog.kind = "remote"
    /\ dialog.total = 2
    /\ dialog.first = <<"1">>
    /\ dialog.second = <<"1", ".", "5">>

====
